---------------------------- MODULE Spec2Model ----------------------------
(***************************************************************************)
(* Model of src/server.py: the MCP tool scrape_jobs_tool, which turns a    *)
(* caller's search request into the keyword arguments of jobspy's          *)
(* scrape_jobs, calls it once, and maps the rows of the returned frame to  *)
(* a {Count, Jobs} dictionary.                                             *)
(*                                                                         *)
(* Python strings are sequences of one-character strings, so that lower(), *)
(* str() and f-string formatting are computed and not assumed.  Python     *)
(* values are tagged records: None, NaN (the missing-value marker of a     *)
(* pandas frame), integers, strings, booleans and lists of strings.        *)
(***************************************************************************)
EXTENDS FiniteSets, Integers, Sequences, TLC

----------------------------------------------------------------------------
(* Bounds of the model *)

\* longest explicit Boards list a caller passes
MaxBoards == 2
\* most rows in the frame the backend returns
MaxRows == 2

----------------------------------------------------------------------------
(* Program constants *)

\* ResultCount: int = 20
DefaultResultCount == 20
\* PostedWithinDays: int = 7
DefaultPostedWithinDays == 7
\* hours_old = PostedWithinDays * 24
HoursPerDay == 24

----------------------------------------------------------------------------
(* Python values *)

PyNone == [t |-> "None"]
NaN == [t |-> "nan"]
PyInt(n) == [t |-> "int", n |-> n]
PyStrVal(s) == [t |-> "str", s |-> s]
PyBool(b) == [t |-> "bool", b |-> b]
PyList(l) == [t |-> "list", l |-> l]

\* the en dash (U+2013) of the salary f-string, as one character
EnDash == "U+2013"

UpperLetters ==
  <<"A","B","C","D","E","F","G","H","I","J","K","L","M",
    "N","O","P","Q","R","S","T","U","V","W","X","Y","Z">>
LowerLetters ==
  <<"a","b","c","d","e","f","g","h","i","j","k","l","m",
    "n","o","p","q","r","s","t","u","v","w","x","y","z">>

\* str.lower() on one character
LowerChar(c) ==
  IF \E k \in DOMAIN UpperLetters : UpperLetters[k] = c
    THEN LowerLetters[CHOOSE k \in DOMAIN UpperLetters : UpperLetters[k] = c]
    ELSE c

\* a plausible slip: only the first character is folded (str.capitalize-like)
LowerFirstOnly(s) ==
  [k \in DOMAIN s |-> IF k = 1 THEN LowerChar(s[k]) ELSE s[k]]

\* str.lower()
Lower(s) == [k \in DOMAIN s |-> LowerChar(s[k])]

\* bool(v): Python truthiness.  NaN is a non-zero float, hence truthy.
Truthy(v) ==
  CASE v.t = "None" -> FALSE
    [] v.t = "nan" -> TRUE
    [] v.t = "int" -> v.n # 0
    [] v.t = "str" -> Len(v.s) > 0
    [] v.t = "bool" -> v.b
    [] v.t = "list" -> Len(v.l) > 0
    [] v.t = "date" -> TRUE

DigitChars == <<"0","1","2","3","4","5","6","7","8","9">>

RECURSIVE Decimal(_)
\* str(n) for a natural number n
Decimal(n) ==
  IF n < 10 THEN <<DigitChars[n + 1]>>
  ELSE Decimal(n \div 10) \o <<DigitChars[(n % 10) + 1]>>

\* n as decimal digits, zero-padded to width w (date.isoformat)
Pad(n, w) ==
  LET d == Decimal(n)
  IN [k \in 1..(w - Len(d)) |-> "0"] \o d

PyDate(y, m, d) == [t |-> "date", y |-> y, m |-> m, d |-> d]

\* str(v), also what an f-string placeholder {v} renders
Format(v) ==
  CASE v.t = "None" -> <<"N","o","n","e">>
    [] v.t = "nan" -> <<"n","a","n">>
    [] v.t = "int" -> IF v.n < 0 THEN <<"-">> \o Decimal(0 - v.n) ELSE Decimal(v.n)
    [] v.t = "str" -> v.s
    [] v.t = "bool" -> IF v.b THEN <<"T","r","u","e">> ELSE <<"F","a","l","s","e">>
    [] v.t = "date" -> Pad(v.y, 4) \o <<"-">> \o Pad(v.m, 2) \o <<"-">> \o Pad(v.d, 2)

----------------------------------------------------------------------------
(* The caller's inputs *)

Indeed == <<"I","n","d","e","e","d">>
indeed == <<"i","n","d","e","e","d">>
LinkedIn == <<"L","i","n","k","e","d","I","n">>
linkedin == <<"l","i","n","k","e","d","i","n">>
Google == <<"G","o","o","g","l","e">>
google == <<"g","o","o","g","l","e">>
Monster == <<"M","o","n","s","t","e","r">>

\* the default of the Boards parameter, as written in the signature
DefaultBoardsLiteral == <<Indeed, LinkedIn, Google>>

\* board names a caller passes: two casings of one board, and one that is
\* no backend of jobspy; LinkedIn and the web-search board are requested
\* through the default list
BoardNames == {Indeed, indeed, Monster}

RECURSIVE SeqsUpTo(_, _)
\* all sequences over S of length at most n
SeqsUpTo(S, n) ==
  IF n = 0 THEN {<<>>}
  ELSE LET shorter == SeqsUpTo(S, n - 1)
       IN shorter \cup {Append(q, x) : q \in {r \in shorter : Len(r) = n - 1}, x \in S}

BoardLists == SeqsUpTo(BoardNames, MaxBoards)

RoleKeywordsValues == {PyNone, PyStrVal(<<>>), PyStrVal(<<"P","M">>)}
LocationValues == {PyNone, PyStrVal(<<>>), PyStrVal(<<"H","a">>)}
CountryValues == {PyNone, PyStrVal(<<>>), PyStrVal(<<"U","S">>)}
ResultCountValues == {DefaultResultCount}
PostedWithinDaysValues == {DefaultPostedWithinDays}

----------------------------------------------------------------------------
(* Request normalization, lines 66-93 *)

\* x in list
Contains(list, x) == \E k \in DOMAIN list : list[k] = x

\* site_name = [b.lower() for b in Boards]
site_name_of(Boards) == [k \in DOMAIN Boards |-> Lower(Boards[k])]

\* hours_old = PostedWithinDays * 24
hours_old_of(PostedWithinDays) == PostedWithinDays * HoursPerDay

\* a plausible slip: " in {Location}" appended without testing Location
google_search_term_always_in(site, RoleKeywords, Location) ==
  IF Contains(site, google) /\ Truthy(RoleKeywords)
    THEN PyStrVal(Format(RoleKeywords) \o <<" ","j","o","b","s">> \o <<" ","i","n"," ">> \o Format(Location))
    ELSE PyNone

\* google_search_term, lines 72-76
google_search_term_of(site, RoleKeywords, Location) ==
  IF Contains(site, google) /\ Truthy(RoleKeywords)
    THEN IF Truthy(Location)
           THEN PyStrVal(Format(RoleKeywords) \o <<" ","j","o","b","s">> \o <<" ","i","n"," ">> \o Format(Location))
           ELSE PyStrVal(Format(RoleKeywords) \o <<" ","j","o","b","s">>)
    ELSE PyNone

\* scrape_kwargs = dict(...), lines 78-85
base_kwargs(a) ==
  [site_name |-> PyList(site_name_of(a.Boards)),
   search_term |-> a.RoleKeywords,
   google_search_term |->
     google_search_term_of(site_name_of(a.Boards), a.RoleKeywords, a.Location),
   location |-> a.Location,
   results_wanted |-> PyInt(a.ResultCount),
   hours_old |-> PyInt(hours_old_of(a.PostedWithinDays))]

\* a plausible slip: "if Country is None", which lets the empty string through
CountryIsNone(Country) == Country = PyNone

\* "not Country", line 88
CountryMissing(Country) == ~Truthy(Country)

\* the test of line 87 and the raise of lines 88-92
NeedsCountry(a) ==
  Contains(site_name_of(a.Boards), indeed) /\ CountryMissing(a.Country)

\* a plausible slip: the country is forwarded whenever the caller gave one
with_country_always(kw, a) ==
  IF a.Country.t = "str"
    THEN kw @@ [country_indeed |-> PyStrVal(Lower(a.Country.s))]
    ELSE kw

\* scrape_kwargs["country_indeed"] = Country.lower(), lines 87 and 93
with_country(kw, a) ==
  IF Contains(site_name_of(a.Boards), indeed)
    THEN kw @@ [country_indeed |-> PyStrVal(Lower(a.Country.s))]
    ELSE kw

\* the keyword arguments scrape_jobs is called with, line 95
scrape_kwargs_of(a) == with_country(base_kwargs(a), a)

\* the ValueError of lines 89-92
CountryRequired ==
  [type |-> "ValueError",
   arg |-> "Country is required when using Indeed. Examples: 'us', 'de', 'pk', 'uk'."]

----------------------------------------------------------------------------
(* The frame the backend returns: rows are dictionaries from column names  *)
(* to values; every row of one frame has the columns of the frame.         *)

\* the columns the loop subscripts, lines 102-118
RawKeys ==
  {"title", "company", "location", "date_posted", "job_type",
   "experience_range", "is_remote", "min_amount", "max_amount", "currency",
   "interval", "site", "job_url", "company_url"}

\* a listing with every column filled and both salary bounds
RowFull ==
  [title |-> PyStrVal(<<"D","e","v">>), company |-> PyStrVal(<<"A","c","m","e">>),
   location |-> PyStrVal(<<"H","a">>), date_posted |-> PyDate(2026, 1, 5),
   job_type |-> PyStrVal(<<"f","u","l","l","t","i","m","e">>), experience_range |-> PyNone,
   is_remote |-> PyBool(TRUE), min_amount |-> PyInt(80000),
   max_amount |-> PyInt(100000), currency |-> PyStrVal(<<"U","S","D">>),
   interval |-> PyStrVal(<<"y","e","a","r","l","y">>), site |-> PyStrVal(indeed),
   job_url |-> PyStrVal(<<"u","1">>), company_url |-> PyStrVal(<<"c","1">>)]

\* only a minimum; title and posting date null
RowMinOnly ==
  [RowFull EXCEPT !.max_amount = PyNone, !.title = PyNone,
                  !.date_posted = PyNone, !.site = PyStrVal(linkedin)]

\* a minimum of zero with a maximum
RowZeroMin == [RowFull EXCEPT !.min_amount = PyInt(0), !.site = PyStrVal(google)]

\* the salary columns hold the frame's missing-value marker
RowNaN ==
  [RowFull EXCEPT !.min_amount = NaN, !.max_amount = NaN,
                  !.currency = NaN, !.interval = NaN, !.title = NaN]

\* a frame without the title column
RowNoTitle == [k \in RawKeys \ {"title"} |-> RowFull[k]]

Rows == {RowFull, RowMinOnly, RowZeroMin, RowNaN, RowNoTitle}

\* the frames scrape_jobs returns: all rows have the same columns
Frames ==
  {f \in SeqsUpTo(Rows, MaxRows) :
     \A j, k \in DOMAIN f : DOMAIN f[j] = DOMAIN f[k]}

\* what scrape_jobs raises when it fails
BackendErrors == {[type |-> "ConnectionError", arg |-> "scrape failed"]}

----------------------------------------------------------------------------
(* Result normalization, lines 98-124 *)

\* the columns one iteration subscripts, in evaluation order: the condition
\* of line 103 short-circuits, the f-string of line 102 is evaluated only
\* when the condition is true, then lines 108-118
AccessOrder(row) ==
  LET hasMin == "min_amount" \in DOMAIN row
      minT == hasMin /\ Truthy(row["min_amount"])
      hasMax == "max_amount" \in DOMAIN row
      bothT == minT /\ hasMax /\ Truthy(row["max_amount"])
  IN <<"min_amount">>
       \o (IF minT THEN <<"max_amount">> ELSE <<>>)
       \o (IF bothT THEN <<"min_amount", "max_amount", "currency", "interval">> ELSE <<>>)
       \o <<"title", "company", "location", "date_posted", "job_type",
            "experience_range", "is_remote", "site", "job_url", "company_url">>

\* row[k] raises KeyError(k) for a column the row does not have
MissingKeys(row) ==
  {k \in DOMAIN AccessOrder(row) : AccessOrder(row)[k] \notin DOMAIN row}

RaisesKeyError(row) == MissingKeys(row) # {}

KeyErrorOf(row) ==
  [type |-> "KeyError",
   arg |-> AccessOrder(row)[CHOOSE k \in MissingKeys(row) :
                              \A j \in MissingKeys(row) : k <= j]]

\* salary, lines 101-105
salary_of(row) ==
  IF Truthy(row["min_amount"]) /\ Truthy(row["max_amount"])
    THEN PyStrVal(Format(row["min_amount"]) \o <<EnDash>> \o Format(row["max_amount"])
                  \o <<" ">> \o Format(row["currency"])
                  \o <<" ", "(">> \o Format(row["interval"]) \o <<")">>)
    ELSE PyNone

\* the dictionary appended at lines 107-119
listing_of(row) ==
  [Title |-> row["title"],
   Company |-> row["company"],
   Location |-> row["location"],
   PostedDate |-> PyStrVal(Format(row["date_posted"])),
   JobType |-> row["job_type"],
   ExperienceRange |-> row["experience_range"],
   Remote |-> row["is_remote"],
   Salary |-> salary_of(row),
   Board |-> row["site"],
   JobURL |-> row["job_url"],
   CompanyURL |-> row["company_url"]]

\* a plausible slip: results.insert(0, ...)
insert_first(list, item) == <<item>> \o list

\* results.append(...), line 107
append(list, item) == Append(list, item)

\* an exception leaving scrape_jobs_tool: no try/except around line 95
propagated(exc) == [kind |-> "raise", exc |-> exc]

\* the dictionary returned at lines 121-124
returned(results) == [kind |-> "return", value |-> [Count |-> Len(results), Jobs |-> results]]

----------------------------------------------------------------------------
(* The tool as a state machine: one request at a time goes through         *)
(* scrape_jobs_tool; the call of scrape_jobs at line 95 blocks until the   *)
(* backend returns a frame or raises.                                      *)

VARIABLES
  pc,                 \* "idle", "scrape" (inside line 95), "rows" (the loop), "done"
  defaultBoards,      \* the list object that is the default of Boards
  args,                \* the parameters of the running call
  site_name,
  hours_old,
  google_search_term,
  scrape_kwargs,
  invoked,            \* the keyword arguments of each scrape_jobs call of this request
  jobs,               \* the frame scrape_jobs returned
  row_index,          \* position of the loop of line 100
  results,
  response,           \* what scrape_jobs did: returned a frame (jobs) or raised
  outcome,            \* how the call ended: an exception raised or a value returned
  earlierDefault      \* an earlier call was made without Boards

vars ==
  <<pc, defaultBoards, args, site_name, hours_old, google_search_term,
    scrape_kwargs, invoked, jobs, row_index, results, response, outcome,
    earlierDefault>>

Pending == [kind |-> "pending"]
NoArgs == [omitted |-> TRUE]
NoKwargs == [k \in {} |-> PyNone]

\* the ways a caller gives Boards: not at all, or as an explicit list
BoardChoices ==
  {[omitted |-> TRUE, list |-> <<>>]} \cup {[omitted |-> FALSE, list |-> b] : b \in BoardLists}

\* a plausible slip: the list is lowercased in place (Boards[k] = b.lower())
boards_lowered_in_place(Boards) == site_name_of(Boards)

\* the Boards object after line 66: the comprehension builds a new list
boards_after(Boards) == Boards

Init ==
  /\ pc = "idle"
  /\ defaultBoards = DefaultBoardsLiteral
  /\ args = NoArgs
  /\ site_name = <<>>
  /\ hours_old = 0
  /\ google_search_term = PyNone
  /\ scrape_kwargs = NoKwargs
  /\ invoked = <<>>
  /\ jobs = <<>>
  /\ row_index = 0
  /\ results = <<>>
  /\ response = Pending
  /\ outcome = Pending
  /\ earlierDefault = FALSE

\* lines 23-95: bind the parameters, normalize, validate, call scrape_jobs
Request ==
  /\ pc = "idle"
  /\ \E c \in BoardChoices, rk \in RoleKeywordsValues, loc \in LocationValues,
        rc \in ResultCountValues, days \in PostedWithinDaysValues,
        country \in CountryValues :
       LET a == [omitted |-> c.omitted,
                 Boards |-> IF c.omitted THEN defaultBoards ELSE c.list,
                 RoleKeywords |-> rk, Location |-> loc, ResultCount |-> rc,
                 PostedWithinDays |-> days, Country |-> country]
       IN /\ args' = a
          /\ site_name' = site_name_of(a.Boards)
          /\ defaultBoards' =
               IF c.omitted THEN boards_after(defaultBoards) ELSE defaultBoards
          /\ hours_old' = hours_old_of(a.PostedWithinDays)
          /\ google_search_term' =
               google_search_term_of(site_name_of(a.Boards), a.RoleKeywords, a.Location)
          /\ IF NeedsCountry(a)
               THEN /\ scrape_kwargs' = base_kwargs(a)
                    /\ invoked' = <<>>
                    /\ outcome' = propagated(CountryRequired)
                    /\ pc' = "done"
               ELSE /\ scrape_kwargs' = scrape_kwargs_of(a)
                    /\ invoked' = Append(invoked, scrape_kwargs_of(a))
                    /\ outcome' = Pending
                    /\ pc' = "scrape"
  /\ UNCHANGED <<jobs, row_index, results, response, earlierDefault>>

\* line 95 returns a frame; line 98
ScrapeReturns ==
  /\ pc = "scrape"
  /\ \E f \in Frames :
       /\ jobs' = f
       /\ response' = [kind |-> "frame"]
  /\ results' = <<>>
  /\ row_index' = 1
  /\ pc' = "rows"
  /\ UNCHANGED <<defaultBoards, args, site_name, hours_old, google_search_term,
                 scrape_kwargs, invoked, outcome, earlierDefault>>

\* line 95 raises: nothing catches it
ScrapeRaises ==
  /\ pc = "scrape"
  /\ \E e \in BackendErrors :
       /\ response' = [kind |-> "raise", exc |-> e]
       /\ outcome' = propagated(e)
  /\ pc' = "done"
  /\ UNCHANGED <<defaultBoards, args, site_name, hours_old, google_search_term,
                 scrape_kwargs, invoked, jobs, row_index, results, earlierDefault>>

\* one iteration of the loop, lines 100-119
NormalizeRow ==
  /\ pc = "rows"
  /\ row_index <= Len(jobs)
  /\ IF RaisesKeyError(jobs[row_index])
       THEN /\ outcome' = propagated(KeyErrorOf(jobs[row_index]))
            /\ pc' = "done"
            /\ UNCHANGED <<results, row_index>>
       ELSE /\ results' = append(results, listing_of(jobs[row_index]))
            /\ row_index' = row_index + 1
            /\ UNCHANGED <<outcome, pc>>
  /\ UNCHANGED <<defaultBoards, args, site_name, hours_old, google_search_term,
                 scrape_kwargs, invoked, jobs, response, earlierDefault>>

\* lines 121-124
Return ==
  /\ pc = "rows"
  /\ row_index > Len(jobs)
  /\ outcome' = returned(results)
  /\ pc' = "done"
  /\ UNCHANGED <<defaultBoards, args, site_name, hours_old, google_search_term,
                 scrape_kwargs, invoked, jobs, row_index, results, response,
                 earlierDefault>>

\* the call is over and its locals are gone; the tool waits for the next request
NextRequest ==
  /\ pc = "done"
  /\ pc' = "idle"
  /\ args' = NoArgs
  /\ site_name' = <<>>
  /\ hours_old' = 0
  /\ google_search_term' = PyNone
  /\ scrape_kwargs' = NoKwargs
  /\ invoked' = <<>>
  /\ jobs' = <<>>
  /\ row_index' = 0
  /\ results' = <<>>
  /\ response' = Pending
  /\ outcome' = Pending
  /\ earlierDefault' = (earlierDefault \/ args.omitted)
  /\ UNCHANGED defaultBoards

Next ==
  \/ Request
  \/ ScrapeReturns
  \/ ScrapeRaises
  \/ NormalizeRow
  \/ Return
  \/ NextRequest

Spec == Init /\ [][Next]_vars

----------------------------------------------------------------------------
(* Vocabulary of the properties, stated without the operators of the model *)

\* the same letter, in either case
SameLetter(c, d) ==
  \/ c = d
  \/ \E k \in DOMAIN UpperLetters :
       {c, d} = {UpperLetters[k], LowerLetters[k]}

\* two strings that differ in letter case only
CaseVariant(x, y) ==
  /\ Len(x) = Len(y)
  /\ \A k \in DOMAIN x : SameLetter(x[k], y[k])

\* two lists of strings that differ in letter case only
CaseVariantList(l, m) ==
  /\ Len(l) = Len(m)
  /\ \A k \in DOMAIN l : CaseVariant(l[k], m[k])

IsLowerCase(x) ==
  \A k \in DOMAIN x : \A j \in DOMAIN UpperLetters : x[k] # UpperLetters[j]

\* the caller's Boards name the board, in any casing
Requests(boards, name) == \E k \in DOMAIN boards : CaseVariant(boards[k], name)

Absent(v) == v = PyNone
Empty(v) == v = PyStrVal(<<>>)
InCall == pc # "idle"
Raised(type) == outcome.kind = "raise" /\ outcome.exc.type = type

----------------------------------------------------------------------------
(* C1 *)

\* C1: whenever a call's Boards contain Indeed in any casing and its Country
\* is None or empty, the call has ended in the ValueError of line 89 and
\* scrape_jobs has not been called at all.
C1_ValidationBeforeBackend ==
  (/\ InCall
   /\ Requests(args.Boards, indeed)
   /\ (Absent(args.Country) \/ Empty(args.Country)))
  => (/\ pc = "done"
      /\ Raised("ValueError")
      /\ invoked = <<>>
      /\ response = Pending)

\* a call for a first board and Indeed (not in canonical casing), with an
\* empty Country, has ended in the validation error
C1_Witness ==
  /\ pc = "done"
  /\ args.Boards = <<Monster, Indeed>>
  /\ Empty(args.Country)
  /\ Raised("ValueError")
  /\ invoked = <<>>

----------------------------------------------------------------------------
(* C4 *)

\* "{RoleKeywords} jobs in {Location}" and "{RoleKeywords} jobs"
TermWithLocation(rk, loc) ==
  PyStrVal(rk.s \o <<" ","j","o","b","s">> \o <<" ","i","n"," ">> \o loc.s)
TermWithoutLocation(rk) == PyStrVal(rk.s \o <<" ","j","o","b","s">>)

\* the running request is inside its call of scrape_jobs (line 95)
Dispatched == pc = "scrape" /\ invoked # <<>>

\* the synthesized term of the running call and of the backend call made
TermIs(v) ==
  /\ google_search_term = v
  /\ \A k \in DOMAIN invoked : invoked[k].google_search_term = v

\* C4 as stated: present means not None.  The term is "{RoleKeywords} jobs
\* in {Location}" when google is among the boards and both are present,
\* "{RoleKeywords} jobs" when Location is absent, None when RoleKeywords is
\* absent or google is not among the boards.
C4_TermWhenPresent ==
  Dispatched =>
    TermIs(IF Requests(args.Boards, google) /\ ~Absent(args.RoleKeywords)
             THEN IF ~Absent(args.Location)
                    THEN TermWithLocation(args.RoleKeywords, args.Location)
                    ELSE TermWithoutLocation(args.RoleKeywords)
             ELSE PyNone)

\* C4 amended: an empty string counts as absent, for RoleKeywords and for
\* Location.
C4_TermWhenNonEmpty ==
  Dispatched =>
    TermIs(IF /\ Requests(args.Boards, google)
              /\ ~Absent(args.RoleKeywords) /\ ~Empty(args.RoleKeywords)
             THEN IF ~Absent(args.Location) /\ ~Empty(args.Location)
                    THEN TermWithLocation(args.RoleKeywords, args.Location)
                    ELSE TermWithoutLocation(args.RoleKeywords)
             ELSE PyNone)

\* scrape_jobs has been called with the term "PM jobs in Ha"
C4_Witness ==
  /\ pc = "scrape"
  /\ Len(invoked) = 1
  /\ invoked[1].google_search_term =
       PyStrVal(<<"P","M"," ","j","o","b","s"," ","i","n"," ","H","a">>)

----------------------------------------------------------------------------
(* C5 *)

\* C5: in every call of scrape_jobs, no board identifier occurs twice in
\* site_name.
C5_BoardsDeduplicated ==
  \A k \in DOMAIN invoked :
    \A i, j \in DOMAIN invoked[k].site_name.l :
      i # j => invoked[k].site_name.l[i] # invoked[k].site_name.l[j]

----------------------------------------------------------------------------
(* C6 *)

\* C6: when scrape_jobs is called, site_name has one entry per entry of
\* Boards, each the lowercase form of the caller's entry (known backend or
\* not); a request whose Boards differ from this one's in letter case only
\* gets the same site_name; and that list is what scrape_jobs receives.
C6_BoardCasingIrrelevant ==
  Dispatched =>
    /\ Len(site_name) = Len(args.Boards)
    /\ \A k \in DOMAIN site_name :
         IsLowerCase(site_name[k]) /\ CaseVariant(site_name[k], args.Boards[k])
    /\ \A other \in BoardLists \cup {DefaultBoardsLiteral} :
         CaseVariantList(other, args.Boards) => site_name_of(other) = site_name
    /\ \A k \in DOMAIN invoked : invoked[k].site_name = PyList(site_name)

\* scrape_jobs has been called for ["Indeed", "Monster"]: a board that has
\* a differently cased twin among the inputs, and a board jobspy does not
\* know
C6_Witness ==
  /\ pc = "scrape"
  /\ args.Boards = <<Indeed, Monster>>
  /\ <<indeed, Monster>> \in BoardLists
  /\ Len(invoked) = 1
  /\ invoked[1].site_name.l = <<indeed, <<"m","o","n","s","t","e","r">> >>

----------------------------------------------------------------------------
(* C10 *)

\* C10: in every call of scrape_jobs, country_indeed is among the keyword
\* arguments exactly when the caller's Boards name Indeed in some casing, and
\* it is then the caller's Country in lowercase; without Indeed it is not
\* passed, whatever Country the caller gave.
C10_CountryOnlyForIndeed ==
  Dispatched =>
    \A k \in DOMAIN invoked :
      /\ ("country_indeed" \in DOMAIN invoked[k]) <=> Requests(args.Boards, indeed)
      /\ Requests(args.Boards, indeed) =>
           /\ invoked[k]["country_indeed"].t = "str"
           /\ IsLowerCase(invoked[k]["country_indeed"].s)
           /\ CaseVariant(invoked[k]["country_indeed"].s, args.Country.s)

\* scrape_jobs has been called for Indeed with Country "US" sent as "us"
C10_Witness ==
  /\ pc = "scrape"
  /\ Requests(args.Boards, indeed)
  /\ args.Country = PyStrVal(<<"U","S">>)
  /\ Len(invoked) = 1
  /\ invoked[1]["country_indeed"] = PyStrVal(<<"u","s">>)

----------------------------------------------------------------------------
(* C2, C3, C8: the listings *)

\* the keys of a listing of the result
ListingKeys ==
  {"Title", "Company", "Location", "PostedDate", "JobType", "ExperienceRange",
   "Remote", "Salary", "Board", "JobURL", "CompanyURL"}

\* the column each key is taken from
ColumnOf ==
  [Title |-> "title", Company |-> "company", Location |-> "location",
   PostedDate |-> "date_posted", JobType |-> "job_type",
   ExperienceRange |-> "experience_range", Remote |-> "is_remote",
   Board |-> "site", JobURL |-> "job_url", CompanyURL |-> "company_url"]

\* keys copied without any change
CopiedKeys == DOMAIN ColumnOf \ {"PostedDate"}

\* the backend left the column out of the row, or put a null there
LeftOut(row, col) == col \notin DOMAIN row \/ row[col] \in {PyNone, NaN}

\* an explicit null or empty value
NullOrEmpty(v) == v \in {PyNone, NaN, PyStrVal(<<>>)}

\* C2: normalizing never raises on a row with columns left out or null, and
\* every listing produced has all eleven keys, the key of each column that
\* was left out or null holding a null or empty value.
C2_AbsentFieldsBecomeNull ==
  /\ ~(InCall /\ Raised("KeyError"))
  /\ \A k \in DOMAIN results :
       /\ DOMAIN results[k] = ListingKeys
       /\ \A key \in DOMAIN ColumnOf :
            LeftOut(jobs[k], ColumnOf[key]) => NullOrEmpty(results[k][key])

\* the amount is there, is not null and is not zero
Amount(row, col) ==
  col \in DOMAIN row /\ ~LeftOut(row, col) /\ row[col] # PyInt(0)

\* "{min}-{max} {currency} ({interval})", with the en dash
SalaryText(row) ==
  PyStrVal(Format(row["min_amount"]) \o <<EnDash>> \o Format(row["max_amount"])
           \o <<" ">> \o Format(row["currency"]) \o <<" ", "(">>
           \o Format(row["interval"]) \o <<")">>)

\* C3: the Salary of every listing is the formatted string exactly when both
\* amounts of its row are present, not null and not zero, and None otherwise.
C3_SalaryOnlyWithBothAmounts ==
  \A k \in DOMAIN results :
    results[k]["Salary"] =
      IF Amount(jobs[k], "min_amount") /\ Amount(jobs[k], "max_amount")
        THEN SalaryText(jobs[k])
        ELSE PyNone

\* C8: a returned result has Count = len(Jobs) = number of rows of the frame,
\* and its k-th listing is made from the k-th row.
C8_CountAndOrderPreserved ==
  (InCall /\ outcome.kind = "return") =>
    LET value == outcome.value
    IN /\ response.kind = "frame"
       /\ value.Count = Len(value.Jobs)
       /\ value.Count = Len(jobs)
       /\ \A k \in DOMAIN value.Jobs :
            /\ \A key \in CopiedKeys :
                 value.Jobs[k][key] = jobs[k][ColumnOf[key]]
            /\ value.Jobs[k]["PostedDate"] =
                 PyStrVal(Format(jobs[k]["date_posted"]))

\* a result of two listings made from two different rows has been returned
C8_Witness ==
  /\ pc = "done"
  /\ outcome.kind = "return"
  /\ outcome.value.Count = 2
  /\ jobs = <<RowMinOnly, RowFull>>
  /\ outcome.value.Jobs[1]["Board"] = PyStrVal(linkedin)

----------------------------------------------------------------------------
(* C7 *)

\* C7: scrape_jobs is called at most once per request, exactly once when
\* validation passed; a failure of it is the call's outcome, unchanged; and
\* a finished request has ended in exactly one of the validation error, the
\* backend's error, or a {Count, Jobs} result.
C7_OneCallThreeOutcomes ==
  /\ Len(invoked) <= 1
  /\ pc \in {"scrape", "rows"} => Len(invoked) = 1
  /\ pc = "done" =>
       \/ /\ Raised("ValueError")
          /\ invoked = <<>>
          /\ response = Pending
       \/ /\ response.kind = "raise"
          /\ outcome = [kind |-> "raise", exc |-> response.exc]
          /\ Len(invoked) = 1
       \/ /\ response.kind = "frame"
          /\ outcome.kind = "return"
          /\ DOMAIN outcome.value = {"Count", "Jobs"}
          /\ Len(invoked) = 1

----------------------------------------------------------------------------
(* C9 *)

\* what normalizing a frame gives, as a function of the frame alone
ResultOf(frame) ==
  IF \E k \in DOMAIN frame : RaisesKeyError(frame[k])
    THEN [kind |-> "raise",
          exc |-> KeyErrorOf(frame[CHOOSE k \in DOMAIN frame :
                                     /\ RaisesKeyError(frame[k])
                                     /\ \A j \in 1..(k - 1) : ~RaisesKeyError(frame[j])])]
    ELSE [kind |-> "return",
          value |-> [Count |-> Len(frame),
                     Jobs |-> [k \in DOMAIN frame |-> listing_of(frame[k])]]]

\* the arguments as the caller gave them: Boards left out means the list
\* written in the signature
AsGiven(a) ==
  [a EXCEPT !.Boards = IF a.omitted THEN DefaultBoardsLiteral ELSE @]

\* how a call ends, as a function of its arguments and of what the backend
\* did for it (the exception it raised, or the frame it returned)
OutcomeOf(a, resp, frame) ==
  IF Requests(a.Boards, indeed) /\ (Absent(a.Country) \/ Empty(a.Country))
    THEN [kind |-> "raise", exc |-> CountryRequired]
    ELSE IF resp.kind = "raise"
           THEN [kind |-> "raise", exc |-> resp.exc]
           ELSE ResultOf(frame)

\* C9: the default Boards list is never changed, so a call without Boards
\* always sees the list of the signature; and the board list, the keyword
\* arguments of scrape_jobs and the outcome of every call are functions of
\* that call's arguments and of the backend's response to it, whatever
\* calls came before.
C9_CallsAreIndependent ==
  /\ defaultBoards = DefaultBoardsLiteral
  /\ (InCall /\ args.omitted) => args.Boards = DefaultBoardsLiteral
  /\ Dispatched =>
       /\ site_name = site_name_of(AsGiven(args).Boards)
       /\ invoked = <<scrape_kwargs_of(AsGiven(args))>>
  /\ pc = "done" => outcome = OutcomeOf(AsGiven(args), response, jobs)

\* after an earlier call that used the default Boards, another call without
\* Boards has returned a result for a frame of two rows
C9_Witness ==
  /\ earlierDefault
  /\ pc = "done"
  /\ args.omitted
  /\ outcome.kind = "return"
  /\ outcome.value.Count = 2

============================================================================
